---- MODULE Spec2Model ----
(***************************************************************************)
(* Model of the ChefMuse application: the Application State Controller     *)
(* (component App) and the Generation Gateway (generateRecipeFromInput).   *)
(*                                                                         *)
(* A step of the model is one run-to-completion piece of JavaScript: the   *)
(* synchronous part of an event handler up to its await, or the            *)
(* continuation of an async handler after the awaited call has resolved.   *)
(* A handler closes over the state of the render it was created in, so an  *)
(* in-flight request carries the value of `history` it captured.           *)
(***************************************************************************)
EXTENDS Integers, Sequences, FiniteSets, TLC

VARIABLES
    appState,       \* useState<AppState>
    recipe,         \* useState<Recipe | null>
    history,        \* useState<Recipe[]>
    error,          \* useState<string | null>
    errorDetails,   \* useState<string | null>
    stored,         \* localStorage entry 'chefMuseHistory'
    mounted,        \* TRUE once the load-history effect has run
    inflight,       \* async handlers suspended at their await
    apiKey,         \* process.env.API_KEY is configured (fixed by the build)
    hasUUID,        \* crypto.randomUUID exists in this browser
    now,            \* Date.now()
    uuids,          \* number of UUIDs drawn so far
    requests,       \* number of submissions handled so far
    remoteCalls,    \* number of ai.models.generateContent calls issued
    failure,        \* cause and message of the failure handleError last classified
    call,           \* the most recent generateRecipeFromInput invocation
    media           \* the most recent generateTTS / generateDishImage call

vars == <<appState, recipe, history, error, errorDetails, stored, mounted,
          inflight, apiKey, hasUUID, now, uuids, requests, remoteCalls,
          failure, call, media>>

----------------------------------------------------------------------------
(* Bounds *)

MaxRequests == 2
MaxTime == 2
MaxImages == 2
MaxConstraints == 2
MaxStored == 1

----------------------------------------------------------------------------
(* Values *)

AppStates == {"LANDING", "ABOUT", "COOKBOOK", "IDLE", "RECORDING",
              "PROCESSING", "ERROR", "RECIPE_VIEW"}

Null == [tag |-> "null"]

\* A JavaScript value held in `history`: an array, or what JSON.parse gave.
Arr(items) == [tag |-> "array", items |-> items]
IsIterable(h) == h.tag = "array"

\* Sequences over S of length at most n.
RECURSIVE SeqsUpTo(_, _)
SeqsUpTo(S, n) ==
    IF n = 0 THEN {<<>>}
    ELSE LET shorter == SeqsUpTo(S, n - 1)
         IN shorter \cup {Append(s, x) : s \in {t \in shorter : Len(t) = n - 1}, x \in S}

SeqToSet(s) == {s[i] : i \in 1..Len(s)}

----------------------------------------------------------------------------
(* Failure messages.  handleError only asks which of six substrings a      *)
(* message contains, so a message is the set of those it contains.         *)

Markers == {"API Key", "No response generated", "Candidate was blocked",
            "fetch", "network", "JSON"}
Messages == SUBSET Markers

ApiKeyMissingMessage == {"API Key"}          \* new Error("API Key missing")
NoResponseMessage == {"No response generated"}
PlainMessage == {}                           \* a message with none of the substrings

----------------------------------------------------------------------------
(* JavaScript strings of the gateway.  A string the code assembles is the  *)
(* sequence of its pieces, concatenation is \o and "" is <<>>.              *)

Undefined == "<undefined>"
NullValue == "<null>"
Truthy(s) == s \notin {Undefined, NullValue, ""}

\* constraints.join(', ')
RECURSIVE Join(_)
Join(cs) ==
    IF Len(cs) = 0 THEN <<>>
    ELSE IF Len(cs) = 1 THEN <<cs[1]>>
    ELSE <<cs[1], ", ">> \o Join(Tail(cs))

DirectiveHead == "CRITICAL CONSTRAINTS: The user has the following limitations: "
DirectiveTail == ". You MUST strictly adhere to these. Do not use equipment that is restricted (e.g. if 'No Stove', use microwave, oven, or raw prep only)."

\* A faulty variant of constraintText: only the first constraint is listed.
constraintTextFirstOnly(constraints) ==
    IF Len(constraints) > 0
    THEN <<DirectiveHead, constraints[1], DirectiveTail>>
    ELSE <<>>

constraintText(constraints) ==
    IF Len(constraints) > 0
    THEN <<DirectiveHead>> \o Join(constraints) \o <<DirectiveTail>>
    ELSE <<>>

ImagePart(img) == [kind |-> "inlineData", mimeType |-> "image/jpeg", data |-> <<img>>]
AudioPart(audioBase64, audioMimeType) ==
    [kind |-> "inlineData",
     mimeType |-> IF Truthy(audioMimeType) THEN audioMimeType ELSE "audio/wav",
     data |-> <<audioBase64>>]
TextPart(text) == [kind |-> "text", mimeType |-> "", data |-> text]

FinalPrompt == <<"Analyze the ingredients and the user request. Create a recipe.">>

\* A faulty variant of promptText: the audio clip is looked at before the
\* text prompt.
promptTextAudioFirst(audioBase64, textPrompt, constraints) ==
    IF Truthy(audioBase64)
    THEN constraintText(constraints)
    ELSE IF Truthy(textPrompt)
    THEN <<"User text request: \"", textPrompt, "\". ">> \o constraintText(constraints)
            \o <<" Create a recipe based on this.">>
    ELSE <<"I have these ingredients. ">> \o constraintText(constraints)
            \o <<" Make me something delicious.">>

\* The text part pushed at lines 80-87.
promptText(audioBase64, textPrompt, constraints) ==
    IF Truthy(textPrompt)
    THEN <<"User text request: \"", textPrompt, "\". ">> \o constraintText(constraints)
            \o <<" Create a recipe based on this.">>
    ELSE IF ~Truthy(audioBase64)
    THEN <<"I have these ingredients. ">> \o constraintText(constraints)
            \o <<" Make me something delicious.">>
    ELSE constraintText(constraints)

\* A faulty variant of buildParts: the audio part is pushed before the images.
buildPartsAudioFirst(images, audioBase64, audioMimeType, textPrompt, constraints) ==
    (IF Truthy(audioBase64) THEN <<AudioPart(audioBase64, audioMimeType)>> ELSE <<>>)
    \o [i \in 1..Len(images) |-> ImagePart(images[i])]
    \o <<TextPart(promptText(audioBase64, textPrompt, constraints))>>
    \o <<TextPart(FinalPrompt)>>

\* The parts array of generateRecipeFromInput, lines 52-90.
buildParts(images, audioBase64, audioMimeType, textPrompt, constraints) ==
    [i \in 1..Len(images) |-> ImagePart(images[i])]
    \o (IF Truthy(audioBase64) THEN <<AudioPart(audioBase64, audioMimeType)>> ELSE <<>>)
    \o <<TextPart(promptText(audioBase64, textPrompt, constraints))>>
    \o <<TextPart(FinalPrompt)>>

\* An invocation of generateRecipeFromInput and the parts it assembled
\* (none when the credential check threw first).
NoCall == [images |-> <<>>, audio |-> NullValue, audioMimeType |-> Undefined,
           textPrompt |-> Undefined, constraints |-> <<>>,
           sent |-> FALSE, parts |-> <<>>]

invoke(images, audioBase64, audioMimeType, textPrompt, constraints, key) ==
    [images |-> images, audio |-> audioBase64, audioMimeType |-> audioMimeType,
     textPrompt |-> textPrompt, constraints |-> constraints,
     sent |-> key,
     parts |-> IF key
               THEN buildParts(images, audioBase64, audioMimeType, textPrompt, constraints)
               ELSE <<>>]

----------------------------------------------------------------------------
(* Recipes.  A JavaScript object is the function from its own keys to      *)
(* their values.                                                           *)

RequiredFields == {"title", "description", "difficulty", "ingredientsFound", "steps"}
LocalFields == {"id", "createdAt", "constraints"}

FullRaw == [title |-> "Shakshuka", description |-> "Eggs in sauce",
            difficulty |-> "Easy", ingredientsFound |-> <<"egg">>,
            steps |-> <<"simmer">>]

\* A provider object without the steps the schema requires.
PartialRaw == [title |-> "Toast", description |-> "Bread, toasted",
               difficulty |-> "Easy", ingredientsFound |-> <<"bread">>]

\* A provider object that brings an id, a createdAt and constraints of its
\* own, besides an optional field of the schema.
ForeignRaw == [title |-> "Ramen", description |-> "Noodles in broth",
               difficulty |-> "Medium", ingredientsFound |-> <<"noodles">>,
               steps |-> <<"boil">>, cuisineStyle |-> "Japanese",
               id |-> [src |-> "provider", n |-> 0], createdAt |-> 0 - 9,
               constraints |-> <<"Provider">>]

UUID(n) == [src |-> "uuid", n |-> n]
TimeId(t) == [src |-> "time", n |-> t]     \* Date.now().toString()

\* A faulty variant of enrich: the provider's object is spread last, so
\* its own id, createdAt and constraints win.
enrichSpreadLast(rawRecipe, id, createdAt, constraints) ==
    [k \in (DOMAIN rawRecipe) \cup LocalFields |->
        IF k \in DOMAIN rawRecipe THEN rawRecipe[k]
        ELSE IF k = "id" THEN id
        ELSE IF k = "createdAt" THEN createdAt
        ELSE constraints]

\* { ...rawRecipe, id, createdAt, constraints }, lines 110-115.
enrich(rawRecipe, id, createdAt, constraints) ==
    [k \in (DOMAIN rawRecipe) \cup LocalFields |->
        IF k = "id" THEN id
        ELSE IF k = "createdAt" THEN createdAt
        ELSE IF k = "constraints" THEN constraints
        ELSE rawRecipe[k]]

\* crypto.randomUUID ? crypto.randomUUID() : Date.now().toString()
newId(uuidAvailable, drawn, time) ==
    IF uuidAvailable THEN UUID(drawn + 1) ELSE TimeId(time)

\* A Recipe written to storage by an earlier session.
OldRecipe(k) == enrich(FullRaw, UUID(0 - k), 0 - k, <<>>)

----------------------------------------------------------------------------
(* JSON.stringify and JSON.parse of the History entry.  The text of an     *)
(* object is the set of its "key": value members; the text of an array is  *)
(* the sequence of the texts of its elements.                              *)

stringifyObject(obj) == {<<k, obj[k]>> : k \in DOMAIN obj}
parseObject(members) ==
    [k \in {m[1] : m \in members} |-> (CHOOSE m \in members : m[1] = k)[2]]

JSONstringify(value) ==
    [syntax |-> value.tag,
     elems |-> [i \in 1..Len(value.items) |-> stringifyObject(value.items[i])]]

\* Text that JSON.parse rejects with a SyntaxError.
InvalidText == [syntax |-> "invalid", elems |-> <<>>]
IsValidJSON(text) == text.syntax # "invalid"

JSONparse(text) ==
    [tag |-> text.syntax,
     items |-> [i \in 1..Len(text.elems) |-> parseObject(text.elems[i])]]

\* localStorage.getItem result: null when the key is absent.
Absent == [present |-> FALSE, text |-> InvalidText]
Item(text) == [present |-> TRUE, text |-> text]

----------------------------------------------------------------------------
(* handleError's classification, lines 82-99.                              *)

GenericError == [msg |-> "The Muse was silent.",
                 details |-> "We couldn't generate a recipe. Please try again."]
ConfigurationError == [msg |-> "Configuration Error",
                       details |-> "The API Key is missing. Please check the environment configuration."]
BlockedError == [msg |-> "Inspiration blocked",
                 details |-> "The Muse couldn't understand the request or it was flagged. Try different wording."]
ConnectionError == [msg |-> "Connection Lost",
                    details |-> "Please check your internet connection and try again."]
ConfusionError == [msg |-> "Creative Confusion",
                   details |-> "The Muse hallucinated an invalid format. Trying again usually fixes this."]

includes(message, substring) == substring \in message

\* A faulty variant of classify: the JSON test comes before the network test.
classifyJSONFirst(message) ==
    IF includes(message, "API Key") THEN ConfigurationError
    ELSE IF includes(message, "No response generated")
            \/ includes(message, "Candidate was blocked") THEN BlockedError
    ELSE IF includes(message, "JSON") THEN ConfusionError
    ELSE IF includes(message, "fetch") \/ includes(message, "network") THEN ConnectionError
    ELSE GenericError

classify(message) ==
    IF includes(message, "API Key") THEN ConfigurationError
    ELSE IF includes(message, "No response generated")
            \/ includes(message, "Candidate was blocked") THEN BlockedError
    ELSE IF includes(message, "fetch") \/ includes(message, "network") THEN ConnectionError
    ELSE IF includes(message, "JSON") THEN ConfusionError
    ELSE GenericError

----------------------------------------------------------------------------
(* What generateContent resolves to, and what generateRecipeFromInput      *)
(* makes of it (lines 92-120).                                             *)

\* response.text: empty, text JSON.parse rejects (with the substrings it
\* contains), or the JSON text of an object.
EmptyResponse == [syntax |-> "empty", contains |-> {}, value |-> <<>>]
NonJSONResponse(contains) == [syntax |-> "invalid", contains |-> contains, value |-> <<>>]
JSONResponse(rawRecipe) == [syntax |-> "object", contains |-> {}, value |-> rawRecipe]

\* JSON that is not an object (a number, a string of no characters, null,
\* an empty array): JSON.parse returns it and the spread at line 111 copies
\* no property out of it.
ScalarResponse == [syntax |-> "scalar", contains |-> {}, value |-> <<>>]

Rejected(message) == [rejected |-> TRUE, message |-> message, text |-> EmptyResponse]
Resolved(text) == [rejected |-> FALSE, message |-> {}, text |-> text]

\* The message of the SyntaxError JSON.parse throws: it names JSON and
\* quotes the rejected text.
SyntaxErrorMessage(text) == {"JSON"} \cup text.contains

Threw(cause, message) == [threw |-> TRUE, cause |-> cause, message |-> message, value |-> <<>>]
Returned(value) == [threw |-> FALSE, cause |-> "none", message |-> {}, value |-> value]

\* The outcome of generateRecipeFromInput once its await has settled.
\* sent is FALSE when line 48 threw before any request was built.
settle(sent, response, constraints, uuidAvailable, drawn, time) ==
    IF ~sent THEN Threw("nokey", ApiKeyMissingMessage)
    ELSE IF response.rejected THEN Threw("rejected", response.message)
    ELSE IF response.text.syntax = "empty" THEN Threw("empty", NoResponseMessage)
    ELSE IF response.text.syntax = "invalid"
    THEN Threw("nonjson", SyntaxErrorMessage(response.text))
    ELSE Returned(enrich(response.text.value, newId(uuidAvailable, drawn, time),
                         time, constraints))

----------------------------------------------------------------------------
(* Inputs *)

Images == {"img1", "img2"}
Constraints == {"No Stove", "Vegan"}

CaptureData(images, audio, audioMimeType, constraints) ==
    [images |-> images, audio |-> audio, audioMimeType |-> audioMimeType,
     constraints |-> constraints]

\* The CaptureData bundles and text prompts of the controller runs.
CaptureInputs == {CaptureData(<<"img1">>, NullValue, Undefined, <<"No Stove">>)}
TextInputs == {"soup"}

\* Every CaptureData bundle and text prompt within the bounds.
AllCaptureInputs ==
    {CaptureData(images, audio, mime, constraints) :
        images \in SeqsUpTo(Images, MaxImages),
        audio \in {NullValue, "", "clip"},
        mime \in {Undefined, "audio/webm"},
        constraints \in SeqsUpTo(Constraints, MaxConstraints)}
AllTextInputs == {"", "soup"}

\* JSON documents the provider answers with.
ProviderRecipes == {FullRaw}
AllProviderRecipes == {FullRaw, PartialRaw, ForeignRaw}

\* Responses of the controller runs, and every response.
Responses ==
    {Rejected({}), Rejected({"fetch"}), Resolved(EmptyResponse),
     Resolved(NonJSONResponse({})), Resolved(NonJSONResponse({"network"}))}
    \cup {Resolved(JSONResponse(raw)) : raw \in ProviderRecipes}
AllResponses ==
    {Rejected(message) : message \in Messages}
    \cup {Resolved(EmptyResponse)}
    \cup {Resolved(NonJSONResponse(contains)) : contains \in Messages}
    \cup {Resolved(JSONResponse(raw)) : raw \in AllProviderRecipes}
    \cup {Resolved(ScalarResponse)}

ObjectText == [syntax |-> "object", elems |-> <<>>]     \* "{}"

OldHistory(n) == [i \in 1..n |-> OldRecipe(i)]

\* What the storage entry can hold when the application starts.
InitialStored ==
    {Absent, Item(InvalidText), Item(ObjectText)}
    \cup {Item(JSONstringify(Arr(OldHistory(n)))) : n \in 0..MaxStored}

----------------------------------------------------------------------------
(* Application State Controller *)

\* generateTTS and generateDishImage.  What they read of the provider's
\* answer is candidates[0].content.parts: each part has an inlineData with
\* its data, or none.
MaxParts == 3

TextOnly == [inlineData |-> FALSE, data |-> Undefined]
Inline(data) == [inlineData |-> TRUE, data |-> data]
MediaParts == {TextOnly, Inline(""), Inline("payload1"), Inline("payload2")}

MediaRejected(message) == [rejected |-> TRUE, message |-> message, parts |-> <<>>]
MediaResolved(parts) == [rejected |-> FALSE, message |-> {}, parts |-> parts]
MediaResponses ==
    {MediaRejected({}), MediaRejected({"fetch"})}
    \cup {MediaResolved(parts) : parts \in SeqsUpTo(MediaParts, MaxParts)}

NoAudioMessage == {}              \* "No audio generated"
NoImageMessage == {}              \* "No image data found in response"

\* generateTTS, lines 150-176: parts?.[0]?.inlineData?.data of the answer.
generateTTS(key, response) ==
    IF ~key THEN Threw("nokey", ApiKeyMissingMessage)
    ELSE IF response.rejected THEN Threw("rejected", response.message)
    ELSE LET parts == response.parts
             audioData == IF Len(parts) > 0 /\ parts[1].inlineData
                          THEN parts[1].data
                          ELSE Undefined
         IN IF ~Truthy(audioData)
            THEN Threw("noaudio", NoAudioMessage)
            ELSE Returned(audioData)

\* The loop of generateDishImage, lines 138-143.
RECURSIVE firstPayload(_)
firstPayload(parts) ==
    IF Len(parts) = 0 THEN Undefined
    ELSE IF parts[1].inlineData /\ Truthy(parts[1].data) THEN parts[1].data
    ELSE firstPayload(Tail(parts))

\* generateDishImage, lines 123-148.
generateDishImage(key, response) ==
    IF ~key THEN Threw("nokey", ApiKeyMissingMessage)
    ELSE IF response.rejected THEN Threw("rejected", response.message)
    ELSE IF firstPayload(response.parts) = Undefined
    THEN Threw("noimage", NoImageMessage)
    ELSE Returned(firstPayload(response.parts))

NoMedia == [op |-> "none", response |-> MediaResolved(<<>>),
            outcome |-> Threw("none", {})]

NoFailure == [cause |-> "none", message |-> {}]

Init ==
    /\ appState = "LANDING"
    /\ recipe = Null
    /\ history = Arr(<<>>)
    /\ error = NullValue
    /\ errorDetails = NullValue
    /\ stored \in InitialStored
    /\ mounted = FALSE
    /\ inflight = {}
    /\ apiKey \in BOOLEAN
    /\ hasUUID \in BOOLEAN
    /\ now = 0
    /\ uuids = 0
    /\ requests = 0
    /\ remoteCalls = 0
    /\ failure = NoFailure
    /\ call = NoCall
    /\ media = NoMedia

\* useEffect(() => {...}, []): runs once after the first render.
loadHistory ==
    /\ ~mounted
    /\ mounted' = TRUE
    /\ history' = IF stored.present /\ IsValidJSON(stored.text)
                  THEN JSONparse(stored.text)
                  ELSE history
    /\ UNCHANGED <<appState, recipe, error, errorDetails, stored, inflight, apiKey,
                   hasUUID, media, now, uuids, requests, remoteCalls, failure, call>>

\* A promise that is already rejected resumes its awaiter in a microtask,
\* before the browser dispatches another event.
MicrotaskPending == \E r \in inflight : ~r.sent

\* The provider's answer to a request that was sent arrives in a later
\* millisecond than the one the request left in (the await at line 93 of the gateway).
Answered(r) == r.sent => now > r.at

\* The browser can dispatch a user event to the mounted application.
CanDispatch == mounted /\ ~MicrotaskPending

\* <CameraCapture> is rendered in these states (line 168, ERROR excluded by line 170).
CameraCaptureRendered == appState \in {"IDLE", "RECORDING", "PROCESSING"}

\* The isProcessing prop (line 191).
isProcessing == appState = "PROCESSING"

\* CameraCapture offers submission only while isProcessing is false.
CaptureEnabled == CameraCaptureRendered /\ ~isProcessing

\* A faulty variant of submit: the request is built and sent before the
\* credential is checked.
submitBeforeKeyCheck(images, audio, audioMimeType, textPrompt, constraints) ==
    /\ requests < MaxRequests
    /\ now < MaxTime
    /\ appState' = "PROCESSING"
    /\ error' = NullValue
    /\ errorDetails' = NullValue
    /\ failure' = NoFailure
    /\ requests' = requests + 1
    /\ inflight' = inflight \cup {[rid |-> requests + 1, history |-> history,
                                   constraints |-> constraints, sent |-> apiKey,
                                   at |-> now]}
    /\ remoteCalls' = remoteCalls + 1
    /\ call' = invoke(images, audio, audioMimeType, textPrompt, constraints, TRUE)
    /\ UNCHANGED <<recipe, history, stored, mounted, apiKey, hasUUID, media, now, uuids>>

\* The synchronous part of handleCapture / handleTextGeneration: lines 39-41
\* (64-66) and generateRecipeFromInput up to its await.  The suspended
\* handler keeps the history of the render that created it.
submit(images, audio, audioMimeType, textPrompt, constraints) ==
    /\ requests < MaxRequests
    /\ now < MaxTime
    /\ appState' = "PROCESSING"
    /\ error' = NullValue
    /\ errorDetails' = NullValue
    /\ failure' = NoFailure
    /\ requests' = requests + 1
    /\ inflight' = inflight \cup {[rid |-> requests + 1, history |-> history,
                                   constraints |-> constraints, sent |-> apiKey,
                                   at |-> now]}
    /\ remoteCalls' = IF apiKey THEN remoteCalls + 1 ELSE remoteCalls
    /\ call' = invoke(images, audio, audioMimeType, textPrompt, constraints, apiKey)
    /\ UNCHANGED <<recipe, history, stored, mounted, apiKey, hasUUID, media, now, uuids>>

handleCapture(data) ==
    /\ CanDispatch
    /\ CaptureEnabled
    /\ submit(data.images, data.audio, data.audioMimeType, Undefined, data.constraints)

handleTextGeneration(text) ==
    /\ CanDispatch
    /\ appState = "COOKBOOK"
    /\ submit(<<>>, NullValue, Undefined, text, <<>>)

\* handleError, lines 80-104.
\* A faulty variant of handleError: the message is set, the screen is not.
handleErrorKeepingScreen(cause, message) ==
    /\ error' = classify(message).msg
    /\ errorDetails' = classify(message).details
    /\ failure' = [cause |-> cause, message |-> message]
    /\ appState' = appState

handleError(cause, message) ==
    /\ error' = classify(message).msg
    /\ errorDetails' = classify(message).details
    /\ failure' = [cause |-> cause, message |-> message]
    /\ appState' = "ERROR"

\* const newHistory = [newRecipe, ...history], with the history the handler closed over.
newHistory(r, newRecipe) == Arr(<<newRecipe>> \o r.history.items)

\* saveToHistory, lines 32-36, when neither statement throws.
saveToHistory(r, newRecipe) ==
    /\ history' = newHistory(r, newRecipe)
    /\ stored' = Item(JSONstringify(newHistory(r, newRecipe)))

\* The continuation of handleCapture / handleTextGeneration after the await:
\* lines 54-60 (72-77).  storageOk is whether localStorage.setItem accepts
\* the write or throws (quota exceeded, storage disabled).
resume(r, response, storageOk) ==
    LET result == settle(r.sent, response, r.constraints, hasUUID, uuids, now)
    IN /\ r \in inflight
       /\ Answered(r)
       /\ inflight' = inflight \ {r}
       /\ IF result.threw
          THEN /\ handleError(result.cause, result.message)
               /\ UNCHANGED <<recipe, history, stored, uuids>>
          ELSE /\ recipe' = result.value
               /\ uuids' = IF hasUUID THEN uuids + 1 ELSE uuids
               /\ IF ~IsIterable(r.history)
                  THEN \* the spread at line 33 throws a TypeError
                       /\ handleError("spread", PlainMessage)
                       /\ UNCHANGED <<history, stored>>
                  ELSE IF ~storageOk
                  THEN \* setHistory ran (line 34), setItem threw (line 35)
                       /\ history' = newHistory(r, result.value)
                       /\ handleError("setItem", PlainMessage)
                       /\ UNCHANGED stored
                  ELSE /\ saveToHistory(r, result.value)
                       /\ appState' = "RECIPE_VIEW"
                       /\ UNCHANGED <<error, errorDetails, failure>>
       /\ UNCHANGED <<mounted, apiKey, hasUUID, media, now, requests, remoteCalls, call>>

\* A faulty variant of handleReset: the error details are left in place.
handleResetKeepingDetails ==
    /\ CanDispatch
    /\ appState = "ERROR" \/ (appState = "RECIPE_VIEW" /\ recipe # Null)
    /\ appState' = "IDLE"
    /\ recipe' = Null
    /\ error' = NullValue
    /\ failure' = NoFailure
    /\ UNCHANGED <<errorDetails, history, stored, mounted, inflight, apiKey, hasUUID,
                   media, now, uuids, requests, remoteCalls, call>>

handleReset ==
    /\ CanDispatch
    /\ appState = "ERROR" \/ (appState = "RECIPE_VIEW" /\ recipe # Null)
    /\ appState' = "IDLE"
    /\ recipe' = Null
    /\ error' = NullValue
    /\ errorDetails' = NullValue
    /\ failure' = NoFailure
    /\ UNCHANGED <<history, stored, mounted, inflight, apiKey, hasUUID, media, now, uuids,
                   requests, remoteCalls, call>>

navigate(to) ==
    /\ appState' = to
    /\ UNCHANGED <<recipe, history, error, errorDetails, stored, mounted, inflight,
                   apiKey, hasUUID, media, now, uuids, requests, remoteCalls, failure, call>>

handleStart == CanDispatch /\ appState = "LANDING" /\ navigate("IDLE")
handleAbout == CanDispatch /\ appState = "LANDING" /\ navigate("ABOUT")
handleCookbook == CanDispatch /\ appState = "LANDING" /\ navigate("COOKBOOK")

\* onBack of AboutPage, Cookbook and CameraCapture (lines 151, 161, 190).
handleBackToLanding ==
    /\ CanDispatch
    /\ appState \in {"ABOUT", "COOKBOOK"} \/ CameraCaptureRendered
    /\ navigate("LANDING")

\* A faulty variant of handleSelectRecipe: the entry picked is taken out of
\* the in-memory History.
handleSelectRecipeTaking(selected) ==
    /\ CanDispatch
    /\ appState = "COOKBOOK"
    /\ IsIterable(history)
    /\ selected \in SeqToSet(history.items)
    /\ recipe' = selected
    /\ appState' = "RECIPE_VIEW"
    /\ history' = Arr(SelectSeq(history.items, LAMBDA entry : entry # selected))
    /\ UNCHANGED <<error, errorDetails, stored, mounted, inflight, apiKey,
                   hasUUID, media, now, uuids, requests, remoteCalls, failure, call>>

\* Cookbook lists recipes={history} and reports the entry the user picks.
handleSelectRecipe(selected) ==
    /\ CanDispatch
    /\ appState = "COOKBOOK"
    /\ IsIterable(history)
    /\ selected \in SeqToSet(history.items)
    /\ recipe' = selected
    /\ appState' = "RECIPE_VIEW"
    /\ UNCHANGED <<history, error, errorDetails, stored, mounted, inflight, apiKey,
                   hasUUID, media, now, uuids, requests, remoteCalls, failure, call>>

\* Time passes while a request is awaited.
tick ==
    /\ inflight # {}
    /\ now < MaxTime
    /\ now' = now + 1
    /\ UNCHANGED <<appState, recipe, history, error, errorDetails, stored, mounted,
                   inflight, apiKey, hasUUID, media, uuids, requests, remoteCalls,
                   failure, call>>

Navigation ==
    \/ handleStart
    \/ handleAbout
    \/ handleCookbook
    \/ handleBackToLanding
    \/ \E selected \in SeqToSet(history.items) : handleSelectRecipe(selected)
    \/ handleReset

\* The controller: any number of requests up to MaxRequests.
Next ==
    \/ loadHistory
    \/ Navigation
    \/ \E data \in CaptureInputs : handleCapture(data)
    \/ \E text \in TextInputs : handleTextGeneration(text)
    \/ \E r \in inflight, response \in Responses, storageOk \in BOOLEAN :
          resume(r, response, storageOk)
    \/ tick

Spec == Init /\ [][Next]_vars

\* One generation, with every input and every response within the bounds.
FirstRequest == requests = 0

GatewayNext ==
    \/ loadHistory
    \/ FirstRequest /\ Navigation
    \/ FirstRequest /\ \E data \in AllCaptureInputs : handleCapture(data)
    \/ FirstRequest /\ \E text \in AllTextInputs : handleTextGeneration(text)
    \/ \E r \in inflight, response \in AllResponses, storageOk \in BOOLEAN :
          resume(r, response, storageOk)
    \/ tick

GatewayInit == Init /\ stored = Absent /\ hasUUID

GatewaySpec == GatewayInit /\ [][GatewayNext]_vars

\* generateRecipeFromInput called directly, with every combination of its
\* arguments (the controller never passes a text prompt with an audio clip).
TextPrompts == {Undefined, "", "soup"}

generateRecipeFromInput(images, audioBase64, audioMimeType, textPrompt, constraints) ==
    /\ call = NoCall
    /\ call' = invoke(images, audioBase64, audioMimeType, textPrompt, constraints, apiKey)
    /\ UNCHANGED <<appState, recipe, history, error, errorDetails, stored, mounted,
                   inflight, apiKey, hasUUID, media, now, uuids, requests, remoteCalls,
                   failure>>

PromptNext ==
    \E data \in AllCaptureInputs, textPrompt \in TextPrompts :
        generateRecipeFromInput(data.images, data.audio, data.audioMimeType,
                                textPrompt, data.constraints)

PromptSpec == GatewayInit /\ [][PromptNext]_vars

\* generateTTS and generateDishImage called with every answer.
requestSpeech(response) ==
    /\ media = NoMedia
    /\ media' = [op |-> "generateTTS", response |-> response,
                 outcome |-> generateTTS(apiKey, response)]
    /\ UNCHANGED <<appState, recipe, history, error, errorDetails, stored, mounted,
                   inflight, apiKey, hasUUID, now, uuids, requests, remoteCalls,
                   failure, call>>

requestImage(response) ==
    /\ media = NoMedia
    /\ media' = [op |-> "generateDishImage", response |-> response,
                 outcome |-> generateDishImage(apiKey, response)]
    /\ UNCHANGED <<appState, recipe, history, error, errorDetails, stored, mounted,
                   inflight, apiKey, hasUUID, now, uuids, requests, remoteCalls,
                   failure, call>>

MediaNext ==
    \/ \E response \in MediaResponses : requestSpeech(response)
    \/ \E response \in MediaResponses : requestImage(response)

MediaSpec == GatewayInit /\ [][MediaNext]_vars

\* The controller when every remote call is answered: time passes while a
\* request is pending, and the continuation of every request runs.
continuation(rid) ==
    \E r \in inflight, response \in Responses, storageOk \in BOOLEAN :
        r.rid = rid /\ resume(r, response, storageOk)

Fairness ==
    /\ WF_vars(tick)
    /\ \A rid \in 1..MaxRequests : WF_vars(continuation(rid))

LiveSpec == GatewayInit /\ [][Next]_vars /\ Fairness



----------------------------------------------------------------------------
(* Steps and observations the properties below speak about.                *)

\* A step in which the continuation of a suspended handler runs.
Completes == inflight' # inflight /\ inflight' \subseteq inflight

\* ... and generateRecipeFromInput had thrown.
GenerationFailed ==
    /\ Completes
    /\ appState' = "ERROR"
    /\ failure'.cause \in {"nokey", "rejected", "empty", "nonjson"}

\* ... and generateRecipeFromInput had returned a Recipe.
GenerationReturned == Completes /\ ~GenerationFailed

\* The Recipes a restart would load from storage.
PersistedHistory ==
    IF stored.present /\ IsValidJSON(stored.text) THEN JSONparse(stored.text) ELSE Arr(<<>>)

IsSuffix(s, t) ==
    /\ Len(s) <= Len(t)
    /\ \A i \in 1..Len(s) : s[i] = t[Len(t) - Len(s) + i]

----------------------------------------------------------------------------
(* C1: a request whose handling ends with the controller entering          *)
(* ErrorState changes neither the in-memory History nor the persisted       *)
(* History.                                                                *)
C1_FailureLeavesHistory ==
    [][(Completes /\ appState' = "ERROR") => (history' = history /\ stored' = stored)]_vars

(* C2: once mounted, History and its persisted copy change only by a       *)
(* successful generation prepending its Recipe, every successful           *)
(* generation does prepend its Recipe to both, and no entry is removed or  *)
(* replaced.                                                               *)
C2_HistoryOnlyPrepended ==
    [][mounted =>
        /\ (history' # history \/ stored' # stored) => GenerationReturned
        /\ GenerationReturned =>
              /\ history' = Arr(<<recipe'>> \o history.items)
              /\ PersistedHistory' = history'
        /\ IsSuffix(history.items, history'.items)
        /\ IsSuffix(PersistedHistory.items, PersistedHistory'.items)]_vars

(* C3: at most one generation request is in flight in every reachable      *)
(* state.                                                                  *)
C3_AtMostOneInFlight == Cardinality(inflight) <= 1

(* C4: RecipeView is entered only from Processing or Cookbook, ErrorState  *)
(* only from Processing, and a completion leaves the screen alone when the *)
(* controller is not in Processing.                                        *)
C4_CompletionOnlyFromProcessing ==
    [][/\ (appState' = "RECIPE_VIEW" /\ appState # "RECIPE_VIEW")
            => appState \in {"PROCESSING", "COOKBOOK"}
       /\ (appState' = "ERROR" /\ appState # "ERROR") => appState = "PROCESSING"
       /\ (Completes /\ appState # "PROCESSING") => appState' = appState]_vars

(* C5: after every successful generation the persisted History is the      *)
(* in-memory History, which is the new Recipe followed by all earlier      *)
(* entries, and reloading it gives back the same Recipes (ids and          *)
(* createdAt included).                                                    *)
C5_PersistedIsFullHistory ==
    [][GenerationReturned =>
        /\ stored'.present /\ IsValidJSON(stored'.text)
        /\ JSONparse(stored'.text) = history'
        /\ history' = Arr(<<recipe'>> \o history.items)]_vars

(* C6: whatever the storage entry holds at startup, after loading History  *)
(* is the stored valid sequence or the empty sequence, and History is      *)
(* always a sequence.                                                      *)
C6_LoadFallsBackToEmpty ==
    /\ history.tag = "array"
    /\ (mounted /\ requests = 0) =>
          \/ history = Arr(<<>>)
          \/ /\ stored.present /\ stored.text.syntax = "array"
             /\ history = JSONparse(stored.text)

(* C7: without a credential no remote call is ever issued, and the         *)
(* submitted generation takes the controller from Processing to ErrorState *)
(* titled "Configuration Error" with History, its persisted copy and the   *)
(* current Recipe unchanged.                                               *)
C7_NoCredentialFailsFast ==
    [][~apiKey =>
        /\ remoteCalls' = 0 /\ ~call'.sent /\ call'.parts = <<>>
        /\ Completes =>
              /\ appState = "PROCESSING" /\ appState' = "ERROR"
              /\ error' = "Configuration Error"
              /\ history' = history /\ stored' = stored /\ recipe' = recipe]_vars

C7_Witness ==
    /\ ~apiKey /\ requests > 0 /\ inflight = {}
    /\ appState = "ERROR" /\ failure.cause = "nokey"

\* The categories of the error classification, in their order of precedence,
\* with the substrings that put a message in each and the pair each shows.
CategoryOrder == <<"credential", "blocked", "network", "json">>

InCategory(category, message) ==
    CASE category = "credential" -> "API Key" \in message
      [] category = "blocked" ->
            message \cap {"No response generated", "Candidate was blocked"} # {}
      [] category = "network" -> message \cap {"fetch", "network"} # {}
      [] category = "json" -> "JSON" \in message

PairOf(category) ==
    CASE category = "credential" -> <<"Configuration Error", ConfigurationError.details>>
      [] category = "blocked" -> <<"Inspiration blocked", BlockedError.details>>
      [] category = "network" -> <<"Connection Lost", ConnectionError.details>>
      [] category = "json" -> <<"Creative Confusion", ConfusionError.details>>

ExpectedPair(message) ==
    LET hits == {i \in 1..Len(CategoryOrder) : InCategory(CategoryOrder[i], message)}
    IN IF hits = {}
       THEN <<"The Muse was silent.", GenericError.details>>
       ELSE PairOf(CategoryOrder[CHOOSE i \in hits : \A j \in hits : i <= j])

(* C8: the shown (title, detail) pair is the pair of the first category,   *)
(* in the order credential, blocked, network, JSON, that the failure       *)
(* message matches, and the generic pair when it matches none.             *)
C8_ClassificationFirstMatch ==
    /\ failure.cause = "none" => error = NullValue /\ errorDetails = NullValue
    /\ failure.cause # "none" => <<error, errorDetails>> = ExpectedPair(failure.message)

C8_Witness ==
    /\ failure.cause = "rejected"
    /\ failure.message = {"Candidate was blocked", "network", "JSON"}
    /\ appState = "ERROR" /\ error = "Inspiration blocked"

(* C9: whenever the provider's response text is not valid JSON, the        *)
(* controller ends in ErrorState showing "Creative Confusion".             *)
C9_NonJSONShowsConfusion ==
    failure.cause = "nonjson" => (appState = "ERROR" /\ error = "Creative Confusion")

\* An audio clip is present when the payload is a non-empty string.
AudioPresent(audio) == audio # NullValue /\ audio # ""

(* C10: the parts sent are one image/jpeg part per image in order, then    *)
(* one audio part iff an audio clip is present, then one text part, then   *)
(* the fixed analysis instruction; |images| + (1 if audio) + 2 in all.     *)
C10_PartsOrder ==
    call.sent =>
        LET n == Len(call.images)
            a == IF AudioPresent(call.audio) THEN 1 ELSE 0
            parts == call.parts
        IN /\ Len(parts) = n + a + 2
           /\ \A i \in 1..n :
                 /\ parts[i].kind = "inlineData"
                 /\ parts[i].mimeType = "image/jpeg"
                 /\ parts[i].data = <<call.images[i]>>
           /\ a = 1 =>
                 /\ parts[n + 1].kind = "inlineData"
                 /\ parts[n + 1].mimeType # "image/jpeg"
                 /\ parts[n + 1].data = <<call.audio>>
           /\ parts[n + a + 1].kind = "text"
           /\ parts[n + a + 2] = TextPart(FinalPrompt)
           /\ parts[n + a + 1] # TextPart(FinalPrompt)

C10_Witness ==
    /\ call.sent
    /\ call.images = <<"img2", "img1">>
    /\ call.audio = "clip"
    /\ Len(call.parts) = 5
\* The text part of the call: the part before the analysis instruction.
textPartOf(c) == c.parts[Len(c.parts) - 1].data

Mentions(text, piece) == \E i \in 1..Len(text) : text[i] = piece

TextRequestOpening == "User text request: \""
DefaultOpening == "I have these ingredients. "
DefaultInstruction == " Make me something delicious."

(* C11: the text part is chosen by priority.  With a text prompt it is the *)
(* string derived from the prompt, with or without an audio clip; without  *)
(* a text prompt and without audio it is the default instruction; with     *)
(* audio and no text prompt it is the constraint text alone, possibly      *)
(* empty, and never a default or text-prompt instruction.                  *)
C11_TextPartPriority ==
    call.sent =>
        LET text == textPartOf(call)
        IN /\ Truthy(call.textPrompt) =>
                 /\ Len(text) >= 3
                 /\ text[1] = TextRequestOpening
                 /\ text[2] = call.textPrompt
                 /\ ~Mentions(text, DefaultOpening)
                 /\ ~Mentions(text, DefaultInstruction)
           /\ (~Truthy(call.textPrompt) /\ ~AudioPresent(call.audio)) =>
                 /\ Len(text) >= 2
                 /\ text[1] = DefaultOpening
                 /\ text[Len(text)] = DefaultInstruction
                 /\ ~Mentions(text, TextRequestOpening)
           /\ (~Truthy(call.textPrompt) /\ AudioPresent(call.audio)) =>
                 /\ text = constraintText(call.constraints)
                 /\ ~Mentions(text, TextRequestOpening)
                 /\ ~Mentions(text, DefaultOpening)
                 /\ ~Mentions(text, DefaultInstruction)

\* A text prompt supplied together with an audio clip.
C11_Witness ==
    /\ call.sent
    /\ call.textPrompt = "soup"
    /\ call.audio = "clip"
    /\ call.constraints = <<>>
    /\ textPartOf(call)[2] = "soup"

\* The directive naming the constraints cs in order stands in text from
\* position i on.
DirectiveAt(text, i, cs) ==
    /\ Len(text) >= i + 2 * Len(cs)
    /\ text[i] = DirectiveHead
    /\ \A k \in 1..Len(cs) : text[i + 2 * k - 1] = cs[k]
    /\ \A k \in 1..(Len(cs) - 1) : text[i + 2 * k] = ", "
    /\ text[i + 2 * Len(cs)] = DirectiveTail

NoDirective(text) ==
    ~Mentions(text, DirectiveHead) /\ ~Mentions(text, DirectiveTail)

(* C12 as stated: with constraints the text part begins with the           *)
(* directive, which lists every constraint in input order; without         *)
(* constraints it holds no directive.                                      *)
C12_DirectiveIsPrefix ==
    call.sent =>
        IF Len(call.constraints) > 0
        THEN DirectiveAt(textPartOf(call), 1, call.constraints)
        ELSE NoDirective(textPartOf(call))

(* C12: with constraints the text part holds the directive exactly once,   *)
(* listing every constraint in input order: as the whole text part when    *)
(* only audio is given, and right after the opening sentence otherwise;    *)
(* without constraints it holds no directive.                              *)
C12_DirectiveListsConstraints ==
    call.sent =>
        LET text == textPartOf(call)
            cs == call.constraints
            audioOnly == ~Truthy(call.textPrompt) /\ AudioPresent(call.audio)
        IN IF Len(cs) > 0
           THEN /\ Cardinality({i \in 1..Len(text) : text[i] = DirectiveHead}) = 1
                /\ Cardinality({i \in 1..Len(text) : text[i] = DirectiveTail}) = 1
                /\ \E i \in 1..Len(text) : DirectiveAt(text, i, cs)
                /\ audioOnly => (DirectiveAt(text, 1, cs) /\ Len(text) = 2 * Len(cs) + 1)
                /\ ~audioOnly => ~DirectiveAt(text, 1, cs)
           ELSE NoDirective(text)

\* Two constraints and a text prompt: the directive follows the opening.
C12_Witness ==
    /\ call.sent
    /\ call.constraints = <<"Vegan", "No Stove">>
    /\ call.textPrompt = "soup"
    /\ textPartOf(call)[1] = TextRequestOpening
    /\ Mentions(textPartOf(call), DirectiveHead)
\* The ids of the Recipes an array holds (none when it is not an array).
idsOf(h) == IF IsIterable(h) THEN {h.items[i].id : i \in 1..Len(h.items)} ELSE {}

distinctIds(h) == IsIterable(h) => Cardinality(idsOf(h)) = Len(h.items)

(* C13: recipe ids are unique.  The id a successful generation assigns is  *)
(* different from the id of the Recipe on display and of every History     *)
(* entry, all returned by earlier calls, and History never holds two       *)
(* entries with the same id, with crypto.randomUUID and without it.        *)
C13_IdsUnique ==
    [][/\ GenerationReturned =>
             /\ recipe # Null => recipe'.id # recipe.id
             /\ recipe'.id \notin idsOf(history)
             /\ recipe'.id \notin idsOf(PersistedHistory)
       /\ distinctIds(history')]_vars
\* The Recipes the application holds: the one on display and the History.
heldRecipes ==
    (IF recipe = Null THEN {} ELSE {recipe})
    \cup (IF IsIterable(history) THEN SeqToSet(history.items) ELSE {})

(* C14: every Recipe generateRecipe returned has a title, a description,   *)
(* a difficulty, ingredientsFound and steps; an answer that is valid JSON  *)
(* but lacks one of them, or is not a JSON object, makes the generation    *)
(* fail instead.                                                           *)
C14_RequiredFieldsPresent ==
    \A held \in heldRecipes : RequiredFields \subseteq DOMAIN held
\* The positions of the parts of an answer that carry a payload.
carriers(parts) ==
    {i \in 1..Len(parts) : parts[i].inlineData /\ Truthy(parts[i].data)}

firstCarrier(parts) ==
    CHOOSE i \in carriers(parts) : \A j \in carriers(parts) : i <= j

(* C15: generateTTS returns the first audio payload found anywhere among   *)
(* the parts of the answer, and fails for want of audio only when no part  *)
(* carries a payload; it succeeds when the payload is in the second part.  *)
C15_FirstAudioAnywhere ==
    (media.op = "generateTTS" /\ apiKey /\ ~media.response.rejected) =>
        LET parts == media.response.parts
        IN IF carriers(parts) # {}
           THEN media.outcome = Returned(parts[firstCarrier(parts)].data)
           ELSE media.outcome.threw /\ media.outcome.cause = "noaudio"
\* A step from the Cookbook to RecipeView that no continuation made.
SelectStep ==
    appState = "COOKBOOK" /\ appState' = "RECIPE_VIEW" /\ inflight' = inflight

(* C16: selecting a History entry in the Cookbook is idempotent and        *)
(* read-only.  It leads to RecipeView with exactly that entry as the       *)
(* current Recipe, whenever it is selected, and neither the selection nor  *)
(* a reset or a navigation changes the in-memory or persisted History.     *)
C16_SelectReadOnly ==
    [][/\ SelectStep =>
             /\ recipe' \in SeqToSet(history.items)
             /\ UNCHANGED <<history, stored>>
       /\ \A selected \in heldRecipes :
             handleSelectRecipe(selected) =>
                 /\ appState' = "RECIPE_VIEW"
                 /\ recipe' = selected
       /\ Navigation => UNCHANGED <<history, stored>>]_vars

\* An entry a former session stored is on display: it was selected.
C16_Witness ==
    /\ appState = "RECIPE_VIEW"
    /\ recipe = OldRecipe(1)
    /\ IsIterable(history)
    /\ recipe \in SeqToSet(history.items)
(* C17: the Recipe a generation returns carries the id and the createdAt   *)
(* assigned locally and exactly the caller's constraints, in the same      *)
(* order, also when the provider's object has an id, a createdAt or        *)
(* constraints of its own; its other fields are those of the provider's    *)
(* object.                                                                 *)
C17_LocalFieldsWin ==
    [][\A r \in inflight, raw \in AllProviderRecipes, storageOk \in BOOLEAN :
          (r.sent /\ resume(r, Resolved(JSONResponse(raw)), storageOk)) =>
              /\ recipe'.id = newId(hasUUID, uuids, now)
              /\ recipe'.id # [src |-> "provider", n |-> 0]
              /\ recipe'.createdAt = now
              /\ recipe'.constraints = call.constraints
              /\ DOMAIN recipe' = (DOMAIN raw) \cup LocalFields
              /\ \A k \in (DOMAIN raw) \ LocalFields : recipe'[k] = raw[k]]_vars

\* The provider's object had an id, a createdAt and constraints of its own.
C17_Witness ==
    /\ "cuisineStyle" \in DOMAIN recipe
    /\ recipe.title = ForeignRaw.title
    /\ recipe.cuisineStyle = "Japanese"
    /\ recipe.id = UUID(1)
    /\ recipe.createdAt > 0
    /\ call.constraints = <<"Vegan", "No Stove">>
    /\ recipe.constraints = call.constraints
\* A step out of RecipeView or ErrorState that no continuation made.
ResetStep ==
    /\ appState \in {"RECIPE_VIEW", "ERROR"}
    /\ appState' # appState
    /\ inflight' = inflight

(* C18: a reset from RecipeView or ErrorState leads to Idle with the       *)
(* current Recipe, the error message and the error details cleared, and    *)
(* leaves the in-memory and the persisted History unchanged.               *)
C18_ResetClears ==
    [][(ResetStep \/ handleReset) =>
          /\ appState \in {"RECIPE_VIEW", "ERROR"}
          /\ appState' = "IDLE"
          /\ recipe' = Null
          /\ error' = NullValue
          /\ errorDetails' = NullValue
          /\ UNCHANGED <<history, stored>>]_vars

\* Idle after a reset: a request has completed, nothing is pending, the
\* History holds entries, and Recipe, error and details are cleared.
C18_Witness ==
    /\ appState = "IDLE"
    /\ requests > 0
    /\ inflight = {}
    /\ IsIterable(history) /\ Len(history.items) > 0
    /\ recipe = Null
    /\ error = NullValue
    /\ errorDetails = NullValue

(* C19: state and data stay consistent.  The current Recipe is set exactly *)
(* in RecipeView, and the error message and the error details are set      *)
(* exactly in ErrorState.                                                  *)
C19_StateMatchesData ==
    /\ recipe # Null <=> appState = "RECIPE_VIEW"
    /\ error # NullValue <=> appState = "ERROR"
    /\ errorDetails # NullValue <=> appState = "ERROR"

(* C20: Processing is never a dead end.  When every remote call is         *)
(* answered in the end, Processing is always followed by RecipeView or     *)
(* ErrorState, whatever the answer is and whether or not the History       *)
(* could be persisted.                                                     *)
C20_ProcessingResolves ==
    (appState = "PROCESSING") ~> (appState \in {"RECIPE_VIEW", "ERROR"})

\* ErrorState reached from Processing because the History could not be
\* persisted after a successful answer.
C20_Witness ==
    /\ appState = "ERROR"
    /\ failure.cause = "setItem"
    /\ inflight = {}
    /\ requests = 1

====
